---- MODULE Spec2Model ----
(***************************************************************************)
(* devflow autopkg (src/devflow/autopkg.py): one run of the script, from   *)
(* the import of the module to the return of main() or the exception that  *)
(* ends it.  The original repository, the command line, the configuration  *)
(* file and the outcome of every external command are the environment;     *)
(* the clone, its index and its working tree are what the run builds.      *)
(***************************************************************************)
EXTENDS Integers, Sequences, FiniteSets, TLC

\* ---------------------------------------------------------------- bounds
\* commits that exist only on the original's local packaging branch
MaxUnpublished == 1
\* packages a configuration file declares
MaxPackages == 2

VARIABLES
    pc,              \* the statement of autopkg.py about to run
    error,           \* the exception that ended the run ("" while none)
    exitStatus,      \* the process exit status (-1 while running)
    use_colors,      \* module global: "undefined", "True" or "False"
    options,         \* parser.parse_args(): options and positional args
    mode,            \* the validated build mode ("" before validation)
    environ,         \* os.environ["DEVFLOW_BUILD_MODE"] ("" while unset)
    orig,            \* the original repository
    config,          \* ConfigObj(config_file)
    branch,          \* original_repo.head.reference.name
    branch_type_str, \* versioning.get_branch_type(branch)
    debian_branch,   \* utils.get_debian_branch(branch)
    cloneOnDisk,     \* repo_dir holds the clone
    repo,            \* the clone: heads, origin/* refs, tags, objects
    index,           \* the clone's index: path -> content
    worktree,        \* the clone's working tree: path -> content
    python_version,
    debian_version,
    done,            \* the workflow steps completed so far, in order
    builds,          \* the invocations of git-buildpackage so far
    default_mode,    \* utils.get_build_mode(), "" while it was not called
    editor           \* what each run of the editor saved, in order

vars == << pc, error, exitStatus, use_colors, options, mode, environ, orig,
           config, branch, branch_type_str, debian_branch, cloneOnDisk, repo,
           index, worktree, python_version, debian_version, done, builds,
           default_mode, editor >>

\* ------------------------------------------------------- program constants
AVAILABLE_MODES == {"release", "snapshot"}

\* devflow.BRANCH_TYPES keys
BRANCH_TYPES == {"feature", "develop", "release", "hotfix", "master"}

\* versioning.get_branch_type: classification by the name alone
get_branch_type(b) ==
    CASE b = "develop" -> "develop"
      [] b = "master" -> "master"
      [] b = "feature-x" -> "feature"
      [] OTHER -> "unknown"

\* utils.get_debian_branch: the packaging branch of a source branch
get_debian_branch(b) == "debian-" \o b

\* versioning.debian_version_from_python_version: separators rewritten
debian_version_from_python_version(v) ==
    CASE v = "1.2.0_3" -> "1.2.0~3"
      [] OTHER -> v

\* ------------------------------------------------------------- helpers
EmptyFn == [x \in {} |-> 0]

\* f with the entries of g laid over it
Overlay(f, g) == g @@ f

Restrict(f, S) == [x \in (S \cap DOMAIN f) |-> f[x]]

NoRepo == [heads |-> EmptyFn, remotes |-> EmptyFn, tags |-> EmptyFn,
           objects |-> EmptyFn, HEAD |-> "", remoteNames |-> {}]

\* ------------------------------------------------- the original repository
BranchNames == {"develop", "feature-x", "wip"}

PkgName(i) == "pkg" \o ToString(i)
VersionFile(i) == PkgName(i) \o "/version.py"

\* A file is the sequence of its bytes, each a one-character string; a
\* version number or a revision is written as one element, a run of bytes
\* that no statement of the script looks into.
File(tok) == <<tok, "\n">>

UNRELEASED == <<"U", "N", "R", "E", "L", "E", "A", "S", "E", "D">>

\* Commit ids of the original: 1 the common base, 2 the source branch tip,
\* 3 the published packaging tip, 4.. commits of the local packaging branch
\* that were never pushed.
BaseCommit == 1
SourceTip == 2
PublishedTip == 3

SourceTree(tracked) ==
    Overlay([p \in {"setup.py"} |-> File("src1")],
            [p \in {VersionFile(i) : i \in 1..tracked} |-> File("ver-old")])

PackagingTree(k) ==
    Overlay([p \in {"setup.py"} |-> File("src0")],
            [p \in {"debian/changelog"} |->
                <<"d", "f", " ", "(", "0.9", ")", " ", "s", "i", "d", ";", "\n",
                  "\n",
                  " ", "*", " ", "r", "e", "v", ToString(k), "\n">>])

OrigObjects(tracked, u) ==
    [c \in 1..(PublishedTip + u) |->
        CASE c = BaseCommit ->
               [parents |-> {}, msg |-> "base",
                tree |-> [p \in {"setup.py"} |-> File("src0")]]
          [] c = SourceTip ->
               [parents |-> {BaseCommit}, msg |-> "source work",
                tree |-> SourceTree(tracked)]
          [] OTHER ->
               [parents |-> IF c = PublishedTip THEN {BaseCommit} ELSE {c - 1},
                msg |-> "packaging work",
                tree |-> PackagingTree(c - PublishedTip)]]

\* localDeb = -1: the original has no local packaging branch; otherwise the
\* number of unpublished commits on it.
OrigRepo(b, localDeb, tracked, dirty) ==
    [head |-> b,
     heads |-> Overlay([n \in {b} |-> SourceTip],
                       IF localDeb < 0 THEN EmptyFn
                       ELSE [n \in {get_debian_branch(b)} |->
                                PublishedTip + localDeb]),
     remotes |-> [n \in {get_debian_branch(b)} |-> PublishedTip],
     tags |-> [t \in {"0.9", "upstream/1.0", "debian/1.1"} |->
                  IF t = "debian/1.1" THEN PublishedTip ELSE BaseCommit],
     objects |-> OrigObjects(tracked, IF localDeb < 0 THEN 0 ELSE localDeb),
     origin_url |-> "git://example.org/devflow.git",
     dirty |-> dirty]

RECURSIVE Reach(_, _)
\* the commits reachable from commit c in object store objs
Reach(objs, c) ==
    {c} \cup UNION {Reach(objs, p) : p \in objs[c].parents}

\* ------------------------------------------------------------------ Init
Init ==
    /\ pc = "load"
    /\ error = ""
    /\ exitStatus = -1
    /\ use_colors = "undefined"
    /\ options = [help |-> FALSE, keep_repo |-> FALSE, force_dirty |-> FALSE,
                  dist |-> <<>>, args |-> <<>>]
    /\ mode = ""
    /\ environ = ""
    /\ \E b \in BranchNames, localDeb \in -1..MaxUnpublished,
          tracked \in 0..MaxPackages, dirty \in BOOLEAN :
            orig = OrigRepo(b, localDeb, tracked, dirty)
    /\ config = [hasPackages |-> FALSE, packages |-> <<>>]
    /\ branch = ""
    /\ branch_type_str = ""
    /\ debian_branch = ""
    /\ cloneOnDisk = FALSE
    /\ repo = NoRepo
    /\ index = EmptyFn
    /\ worktree = EmptyFn
    /\ python_version = ""
    /\ debian_version = ""
    /\ done = <<>>
    /\ builds = <<>>
    /\ default_mode = ""
    /\ editor = <<>>

\* ------------------------------------------------- exception propagation
\* what the run has built: the clone and the record of the steps taken
work == << cloneOnDisk, repo, index, worktree, done >>

Raise_RemoveClone(err) ==
    /\ pc' = "Aborted"
    /\ error' = err
    /\ exitStatus' = 1
    /\ cloneOnDisk' = (cloneOnDisk /\ options.keep_repo)
    /\ UNCHANGED << repo, index, worktree, done >>

Raise_RollBack(err) ==
    /\ pc' = "Aborted"
    /\ error' = err
    /\ exitStatus' = 1
    /\ repo' = IF cloneOnDisk THEN [repo EXCEPT !.tags = orig.tags] ELSE repo
    /\ UNCHANGED << cloneOnDisk, index, worktree, done >>

\* An exception: main() has no try statement, so it is left at once, and
\* sys.exit(main()) never gets a value: the interpreter prints the traceback
\* and exits with status 1.  No statement runs on the way out.
Raise(err) ==
    /\ pc' = "Aborted"
    /\ error' = err
    /\ exitStatus' = 1
    /\ UNCHANGED work

\* the run goes on to statement `next`
Goto(next) ==
    /\ pc' = next
    /\ UNCHANGED << error, exitStatus >>

\* ------------------------------------------------------ module import
\* lines 46-62: use_colors is assigned only under `if sys.stdout.isatty()`.
LoadModule ==
    /\ pc = "load"
    /\ \E isatty \in BOOLEAN, colors \in {"ok", "AttributeError", "ImportError"} :
         IF ~isatty
         THEN \* line 54 reads use_colors, which no statement has assigned
              /\ Raise("NameError: name 'use_colors' is not defined")
              /\ UNCHANGED use_colors
         ELSE CASE colors = "ok" ->
                     /\ use_colors' = "True"
                     /\ Goto("parse")
                     /\ UNCHANGED work
                [] colors = "AttributeError" ->
                     /\ use_colors' = "False"
                     /\ Goto("parse")
                     /\ UNCHANGED work
                [] OTHER ->
                     /\ Raise("ImportError: No module named colors")
                     /\ UNCHANGED use_colors
    /\ UNCHANGED << options, mode, environ, orig, config, branch,
                    branch_type_str, debian_branch, python_version,
                    debian_version, builds,
                    default_mode, editor >>

\* ------------------------------------------------------------- main()
ArgLists == {<<>>, <<"release">>, <<"snapshot">>, <<"build">>}

\* the values of --dist (line 132: "unstable" unless given)
OptionDists == {<<"u", "n", "s", "t", "a", "b", "l", "e">>, <<"s", "i", "d">>}

\* lines 94-142
ParseArgs ==
    /\ pc = "parse"
    /\ \E h \in BOOLEAN, k \in BOOLEAN, d \in BOOLEAN, a \in ArgLists,
          dist \in OptionDists :
         /\ options' = [help |-> h, keep_repo |-> k, force_dirty |-> d,
                        dist |-> dist, args |-> a]
         /\ IF h
            THEN /\ pc' = "HelpShown"
                 /\ exitStatus' = 0
                 /\ UNCHANGED error
            ELSE Goto("mode")
    /\ UNCHANGED << use_colors, mode, environ, orig, config, branch,
                    branch_type_str, debian_branch, python_version,
                    debian_version, builds, default_mode, editor, work >>

SelectedMode_DefaultOnly(args, dflt) == dflt

\* lines 145-148: args[0], or the default when there is no argument
SelectedMode(args, dflt) == IF Len(args) > 0 THEN args[1] ELSE dflt

\* what utils.get_build_mode() may return
DefaultModes == {"release", "snapshot", "nightly"}

\* lines 144-153; get_build_mode() is called only when args is empty
GetMode ==
    /\ pc = "mode"
    /\ \E dflt \in IF Len(options.args) > 0 THEN {""} ELSE DefaultModes :
         /\ default_mode' = dflt
         /\ IF SelectedMode(options.args, dflt) \notin AVAILABLE_MODES
            THEN /\ Raise("ValueError: Invalid argument! Mode must be one: release, snapshot")
                 /\ UNCHANGED << mode, environ >>
            ELSE /\ mode' = SelectedMode(options.args, dflt)
                 /\ environ' = SelectedMode(options.args, dflt)
                 /\ Goto("open")
                 /\ UNCHANGED work
    /\ UNCHANGED << use_colors, options, orig, config, branch,
                    branch_type_str, debian_branch, python_version,
                    debian_version, builds, editor >>

DirtyRejected_NoCheck(isDirty, force) == FALSE

\* line 160
DirtyRejected(isDirty, force) == isDirty /\ ~force

\* lines 155-161
CheckClean ==
    /\ pc = "open"
    /\ IF DirtyRejected(orig.dirty, options.force_dirty)
       THEN Raise("RuntimeError: Repository is dirty.")
       ELSE Goto("config") /\ UNCHANGED work
    /\ UNCHANGED << use_colors, options, mode, environ, orig, config, branch,
                    branch_type_str, debian_branch, python_version,
                    debian_version, builds,
                    default_mode, editor >>

\* The configurations: no 'packages' section, or packages 1..k, each with
\* its version_file or ("") without one.
Configs ==
    {[hasPackages |-> FALSE, packages |-> <<>>]} \cup
    UNION {{[hasPackages |-> TRUE, packages |-> p] :
               p \in [1..k -> {"", "vf"}]} : k \in 0..MaxPackages}

\* the version_file of package i, "" when the entry has none
version_file(cfg, i) == IF cfg.packages[i] = "" THEN "" ELSE VersionFile(i)

\* lines 163-167
LoadConfig ==
    /\ pc = "config"
    /\ \E cfg \in Configs :
         /\ config' = cfg
         /\ IF ~cfg.hasPackages
            THEN Raise("KeyError: 'packages'")
            ELSE Goto("classify") /\ UNCHANGED work
    /\ UNCHANGED << use_colors, options, mode, environ, orig, branch,
                    branch_type_str, debian_branch, python_version,
                    debian_version, builds,
                    default_mode, editor >>

KnownBranchType_Any(t) == TRUE

\* line 173
KnownBranchType(t) == t \in BRANCH_TYPES

\* lines 169-180
Classify ==
    /\ pc = "classify"
    /\ branch' = orig.head
    /\ branch_type_str' = get_branch_type(orig.head)
    /\ IF ~KnownBranchType(get_branch_type(orig.head))
       THEN /\ Raise("ValueError: Malformed branch name '" \o orig.head
                     \o "', cannot classify")
            /\ UNCHANGED debian_branch
       ELSE /\ debian_branch' = get_debian_branch(orig.head)
            /\ Goto("clone")
            /\ UNCHANGED work
    /\ UNCHANGED << use_colors, options, mode, environ, orig, config,
                    python_version, debian_version, builds,
                    default_mode, editor >>

\* the variables main() sets before it clones
plan == << use_colors, options, mode, environ, config, branch,
           branch_type_str, debian_branch >>

\* what a statement of the workflow finds: the plan and the original
\* repository
setup == << plan, orig >>

\* ------------------------------------------------------- the workflow
\* The statements of main() from the clone on, in program order.
Order == << "clone", "builddir", "branch", "checkout", "merge", "version",
            "update_version", "tag_src", "tag_up", "dch", "edit", "add",
            "commit", "tag_deb", "force_add", "build", "cleanup", "final" >>

IndexOf(seq, s) == CHOOSE i \in 1..Len(seq) : seq[i] = s

After_TagBeforeCommit(s) ==
    CASE s = "add" -> "tag_deb"
      [] s = "tag_deb" -> "commit"
      [] s = "commit" -> "force_add"
      [] s = "final" -> "Finalized"
      [] OTHER -> Order[IndexOf(Order, s) + 1]

After_UpstreamTagFirst(s) ==
    CASE s = "update_version" -> "tag_up"
      [] s = "tag_up" -> "tag_src"
      [] s = "tag_src" -> "dch"
      [] s = "final" -> "Finalized"
      [] OTHER -> Order[IndexOf(Order, s) + 1]

\* the statement main() runs after statement s has returned
After(s) ==
    IF s = "final" THEN "Finalized" ELSE Order[IndexOf(Order, s) + 1]

\* statement s returned normally
Step(s) ==
    /\ Goto(After(s))
    /\ done' = Append(done, s)

Tree(c) == repo.objects[c].tree

NewCommit(objs) == 1 + Cardinality(DOMAIN objs)

CloneRemotes_Upstream(o) == o.remotes

\* git clone: the clone's origin/* refs are the branches of the repository
\* it was cloned from, here the original's local branches
CloneRemotes(o) == o.heads

\* lines 182-186
Clone ==
    /\ pc = "clone"
    /\ \/ /\ cloneOnDisk' = TRUE
          /\ repo' = [heads |-> [n \in {branch} |-> orig.heads[branch]],
                      remotes |-> CloneRemotes(orig),
                      tags |-> orig.tags,
                      objects |-> orig.objects,
                      HEAD |-> branch,
                      remoteNames |-> {"origin"}]
          /\ index' = orig.objects[orig.heads[branch]].tree
          /\ worktree' = orig.objects[orig.heads[branch]].tree
          /\ Step("clone")
       \/ Raise("GitCommandError: clone")
    /\ UNCHANGED << setup, python_version, debian_version, builds,
                    default_mode, editor >>

\* lines 188-190
BuildDir ==
    /\ pc = "builddir"
    /\ \/ /\ Step("builddir")
          /\ UNCHANGED << cloneOnDisk, repo, index, worktree >>
       \/ Raise("ErrorReturnCode: mktemp")
    /\ UNCHANGED << setup, python_version, debian_version, builds,
                    default_mode, editor >>

\* lines 192-195: git branch <debian_branch> origin/<debian_branch>
CreateBranch ==
    /\ pc = "branch"
    /\ IF debian_branch \in DOMAIN repo.remotes
       THEN /\ repo' = [repo EXCEPT !.heads =
                           Overlay(@, [n \in {debian_branch} |->
                                          repo.remotes[debian_branch]])]
            /\ Step("branch")
            /\ UNCHANGED << cloneOnDisk, index, worktree >>
       ELSE Raise("GitCommandError: branch: not a valid object name origin/"
                  \o debian_branch)
    /\ UNCHANGED << setup, python_version, debian_version, builds,
                    default_mode, editor >>

\* lines 197-199
Checkout ==
    /\ pc = "checkout"
    /\ repo' = [repo EXCEPT !.HEAD = debian_branch]
    /\ index' = Tree(repo.heads[debian_branch])
    /\ worktree' = Tree(repo.heads[debian_branch])
    /\ Step("checkout")
    /\ UNCHANGED << setup, cloneOnDisk, python_version, debian_version,
                    builds, default_mode, editor >>

\* what a successful merge of `theirs` into `ours` leaves in the tree
MergedTree(ours, theirs) == Overlay(ours, theirs)

\* git commit / git merge: a new commit on the checked-out branch
CommitOnHead(r, parents, msg, tree) ==
    [r EXCEPT
        !.objects = Overlay(@, [x \in {NewCommit(r.objects)} |->
                        [parents |-> parents, msg |-> msg, tree |-> tree]]),
        !.heads[r.HEAD] = NewCommit(r.objects)]

\* lines 201-203: git merge <branch>, on the packaging branch
Merge ==
    /\ pc = "merge"
    /\ \/ LET t == MergedTree(Tree(repo.heads[repo.HEAD]),
                              Tree(repo.heads[branch]))
          IN  /\ repo' = CommitOnHead(repo,
                             {repo.heads[repo.HEAD], repo.heads[branch]},
                             "Merge branch '" \o branch \o "'", t)
              /\ index' = t
              /\ worktree' = t
              /\ Step("merge")
              /\ UNCHANGED cloneOnDisk
       \/ Raise("GitCommandError: merge: automatic merge failed")
    /\ UNCHANGED << setup, python_version, debian_version, builds,
                    default_mode, editor >>

\* the versions versioning.get_python_version() may compute
PyVersions == {"0.9", "1.0", "1.1", "1.2.0_3"}

\* lines 205-210
ComputeVersion ==
    /\ pc = "version"
    /\ \/ \E v \in PyVersions :
            /\ python_version' = v
            /\ debian_version' = debian_version_from_python_version(v)
            /\ Step("version")
            /\ UNCHANGED << cloneOnDisk, repo, index, worktree >>
       \/ /\ Raise("ValueError: get_python_version")
          /\ UNCHANGED << python_version, debian_version >>
    /\ UNCHANGED << setup, builds, default_mode, editor >>

VersionFiles(cfg) ==
    {version_file(cfg, i) : i \in 1..Len(cfg.packages)} \ {""}

\* lines 212-213: versioning.update_version() writes the version files
UpdateVersion ==
    /\ pc = "update_version"
    /\ \/ /\ worktree' = Overlay(worktree,
                 [p \in VersionFiles(config) |->
                     <<"__version_vcs", "=", python_version, "\n">>])
          /\ Step("update_version")
          /\ UNCHANGED << cloneOnDisk, repo, index >>
       \/ Raise("RuntimeError: update_version")
    /\ UNCHANGED << setup, python_version, debian_version, builds,
                    default_mode, editor >>

GitTag_InOriginal(name, c, s) ==
    IF name \in DOMAIN repo.tags
    THEN /\ Raise("GitCommandError: tag '" \o name \o "' already exists")
         /\ UNCHANGED orig
    ELSE /\ orig' = [orig EXCEPT !.tags = Overlay(@, [t \in {name} |-> c])]
         /\ Step(s)
         /\ UNCHANGED << cloneOnDisk, repo, index, worktree >>

\* repo.git.tag(name, commit), as statement s: git runs in the clone (repo
\* is the clone since line 185) and refuses a tag that exists
GitTag(name, c, s) ==
    /\ UNCHANGED orig
    /\ IF name \in DOMAIN repo.tags
       THEN Raise("GitCommandError: tag '" \o name \o "' already exists")
       ELSE /\ repo' = [repo EXCEPT !.tags = Overlay(@, [t \in {name} |-> c])]
            /\ Step(s)
            /\ UNCHANGED << cloneOnDisk, index, worktree >>

SourceTagTarget_Head == repo.heads[repo.HEAD]

\* lines 217, 219: the commit `git tag <name> <branch>` tags
SourceTagTarget == repo.heads[branch]

\* lines 215-217
TagSource ==
    /\ pc = "tag_src"
    /\ GitTag(python_version, SourceTagTarget, "tag_src")
    /\ UNCHANGED << plan, python_version, debian_version, builds,
                    default_mode, editor >>

\* lines 218-219
TagUpstream ==
    /\ pc = "tag_up"
    /\ GitTag("upstream/" \o python_version, SourceTagTarget, "tag_up")
    /\ UNCHANGED << plan, python_version, debian_version, builds,
                    default_mode, editor >>

\* the entry git-dch puts on top of debian/changelog
DchEntry(v) ==
    <<"d", "f", " ", "(", v, ")", " ">> \o UNRELEASED
        \o <<";", " ", "u", "=", "l", "\n">>
    \o <<"\n">>
    \o <<" ", " ", "*", " ">> \o UNRELEASED \o <<"\n">>
    \o <<"\n">>

\* lines 221-228
Dch ==
    /\ pc = "dch"
    /\ \/ /\ worktree' = [worktree EXCEPT !["debian/changelog"] =
                             DchEntry(debian_version) \o @]
          /\ Step("dch")
          /\ UNCHANGED << cloneOnDisk, repo, index >>
       \/ Raise("ErrorReturnCode: git-dch")
    /\ UNCHANGED << setup, python_version, debian_version, builds,
                    default_mode, editor >>

RECURSIVE Replace(_, _, _)
\* str.replace: every occurrence of `old` in `line`, from the left and
\* without overlap, becomes `new`
Replace(line, old, new) ==
    IF Len(line) < Len(old) THEN line
    ELSE IF SubSeq(line, 1, Len(old)) = old
         THEN new \o Replace(SubSeq(line, Len(old) + 1, Len(line)), old, new)
         ELSE <<line[1]>> \o Replace(Tail(line), old, new)

\* the end of the first line of `bytes`
LineEnd(bytes) ==
    IF \E i \in 1..Len(bytes) : bytes[i] = "\n"
    THEN CHOOSE i \in 1..Len(bytes) :
            bytes[i] = "\n" /\ \A j \in 1..(i - 1) : bytes[j] # "\n"
    ELSE Len(bytes)

RECURSIVE ReadLines(_)
\* f.readlines(): the lines of the file, each with its line end
ReadLines(bytes) ==
    IF bytes = <<>> THEN <<>>
    ELSE <<SubSeq(bytes, 1, LineEnd(bytes))>>
            \o ReadLines(SubSeq(bytes, LineEnd(bytes) + 1, Len(bytes)))

RECURSIVE Concat(_)
Concat(lines) ==
    IF lines = <<>> THEN <<>> ELSE Head(lines) \o Concat(Tail(lines))

\* lines 237-239: f.seek(0); f.writelines(lines); f.close() on a file opened
\* 'r+' that held `old`: the bytes are written over the old ones from the
\* start, and the file is not truncated
WriteLines(old, lines) ==
    Concat(lines) \o SubSeq(old, Len(Concat(lines)) + 1, Len(old))

SnapshotBuild == <<"S", "n", "a", "p", "s", "h", "o", "t", " ",
                   "b", "u", "i", "l", "d">>

\* lines 235-236
SnapshotRewrite(lines, dist) ==
    [lines EXCEPT ![1] = Replace(@, UNRELEASED, dist),
                  ![3] = Replace(@, UNRELEASED, SnapshotBuild)]

\* what the user may save in the editor: the file as it is, or with the
\* distribution of the first line set
EditorSaves(bytes) ==
    {bytes,
     Concat([ReadLines(bytes) EXCEPT ![1] =
                Replace(@, UNRELEASED, <<"s", "t", "a", "b", "l", "e">>)])}

UsesEditor_Always(m) == TRUE

\* line 230
UsesEditor(m) == m = "release"

\* lines 230-239
EditChangelog ==
    /\ pc = "edit"
    /\ IF UsesEditor(mode)
       THEN \* call("vim debian/changelog"): what the user saves, or rc # 0
            \/ \E saved \in EditorSaves(worktree["debian/changelog"]) :
                 /\ worktree' = [worktree EXCEPT
                                    !["debian/changelog"] = saved]
                 /\ editor' = Append(editor, saved)
                 /\ Step("edit")
                 /\ UNCHANGED << cloneOnDisk, repo, index >>
            \/ /\ Raise("RuntimeError: Command 'vim debian/changelog' failed!")
               /\ editor' = Append(editor, worktree["debian/changelog"])
       ELSE /\ IF Len(ReadLines(worktree["debian/changelog"])) < 3
               THEN Raise("IndexError: list index out of range")
               ELSE /\ worktree' = [worktree EXCEPT !["debian/changelog"] =
                           WriteLines(@, SnapshotRewrite(ReadLines(@),
                                                         options.dist))]
                    /\ Step("edit")
                    /\ UNCHANGED << cloneOnDisk, repo, index >>
            /\ UNCHANGED editor
    /\ UNCHANGED << setup, python_version, debian_version, builds,
                    default_mode >>

\* git add <paths>: the index takes the working tree's content of the paths
GitAdd(idx, wt, paths) == Overlay(idx, Restrict(wt, paths))

\* lines 241-242
AddChangelog ==
    /\ pc = "add"
    /\ index' = GitAdd(index, worktree, {"debian/changelog"})
    /\ Step("add")
    /\ UNCHANGED << setup, cloneOnDisk, repo, worktree, python_version,
                    debian_version, builds,
                    default_mode, editor >>

\* git commit -a: every tracked path is staged as the working tree has it
StagedAll(idx, wt) == GitAdd(idx, wt, DOMAIN idx)

\* lines 243-244
Commit ==
    /\ pc = "commit"
    /\ \/ /\ index' = StagedAll(index, worktree)
          /\ repo' = CommitOnHead(repo, {repo.heads[repo.HEAD]},
                         "Bump version to " \o debian_version,
                         StagedAll(index, worktree))
          /\ Step("commit")
          /\ UNCHANGED << cloneOnDisk, worktree >>
       \/ Raise("GitCommandError: commit")
    /\ UNCHANGED << setup, python_version, debian_version, builds,
                    default_mode, editor >>

debian_branch_tag_FromDebianVersion(pyver, debver) == "debian/" \o debver

\* lines 216, 246: "debian/" + branch_tag, and branch_tag = python_version
debian_branch_tag(pyver, debver) == "debian/" \o pyver

\* lines 245-247: git tag <name>, at HEAD
TagDebian ==
    /\ pc = "tag_deb"
    /\ GitTag(debian_branch_tag(python_version, debian_version),
              repo.heads[repo.HEAD], "tag_deb")
    /\ UNCHANGED << plan, python_version, debian_version, builds,
                    default_mode, editor >>

\* grep "__version_vcs" -r . -l: the files with the marker on some line
GrepVersionVcs(wt) ==
    {p \in DOMAIN wt : \E i \in 1..Len(wt[p]) : wt[p][i] = "__version_vcs"}

ForceAdded_Nothing(idx, wt) == idx

\* ... | xargs git add -f
ForceAdded(idx, wt) == GitAdd(idx, wt, GrepVersionVcs(wt))

\* lines 249-250
ForceAdd ==
    /\ pc = "force_add"
    /\ \/ /\ index' = ForceAdded(index, worktree)
          /\ Step("force_add")
          /\ UNCHANGED << cloneOnDisk, repo, worktree >>
       \/ Raise("RuntimeError: Command 'grep ... | xargs git add -f' failed!")
    /\ UNCHANGED << setup, python_version, debian_version, builds,
                    default_mode, editor >>

\* the characters of a path of the working tree
PathChars(p) ==
    IF p = "setup.py" THEN <<"s","e","t","u","p",".","p","y">>
    ELSE IF p = "debian/changelog"
    THEN <<"d","e","b","i","a","n","/","c","h","a","n","g","e","l","o","g">>
    ELSE LET i == CHOOSE k \in 1..MaxPackages : p = VersionFile(k)
         IN  <<"p","k","g",ToString(i),"/",
               "v","e","r","s","i","o","n",".","p","y">>

\* lines 253-255: version_files, in the order of config['packages']
version_files(cfg) == [i \in 1..Len(cfg.packages) |-> version_file(cfg, i)]

RECURSIVE Join(_, _)
\* sep.join(parts)
Join(sep, parts) ==
    IF parts = <<>> THEN <<>>
    ELSE IF Len(parts) = 1 THEN parts[1]
    ELSE parts[1] \o sep \o Join(sep, Tail(parts))

\* line 256: "|".join(["^(%s)$" % vf for vf in version_files])
ignore_regexp(vfs) ==
    Join(<<"|">>, [i \in 1..Len(vfs) |->
                      <<"^", "(">> \o PathChars(vfs[i]) \o <<")", "$">>])

RECURSIVE Alternatives(_)
\* the alternatives of a regular expression, split at its "|"
Alternatives(re) ==
    IF \E i \in 1..Len(re) : re[i] = "|"
    THEN LET i == CHOOSE k \in 1..Len(re) :
                     re[k] = "|" /\ \A j \in 1..(k - 1) : re[j] # "|"
         IN  <<SubSeq(re, 1, i - 1)>> \o Alternatives(SubSeq(re, i + 1, Len(re)))
    ELSE <<re>>

\* the regular expression `alt` is found in the path `p`: the empty
\* expression is found in every string, "^(body)$" in the strings that
\* body matches whole, "." standing for any one character
Found(alt, p) ==
    IF alt = <<>> THEN TRUE
    ELSE LET body == SubSeq(alt, 3, Len(alt) - 2)
         IN  /\ Len(body) = Len(PathChars(p))
             /\ \A i \in 1..Len(body) :
                    body[i] = "." \/ body[i] = PathChars(p)[i]

\* --extend-diff-ignore=re leaves the path p out of the source diff
DiffIgnored(re, p) ==
    \E k \in 1..Len(Alternatives(re)) : Found(Alternatives(re)[k], p)

\* lines 252-269
Build ==
    /\ pc = "build"
    /\ IF \E i \in 1..Len(config.packages) : version_file(config, i) = ""
       THEN \* line 256: pkg_info['version_file']
            /\ Raise("KeyError: 'version_file'")
            /\ UNCHANGED builds
       ELSE /\ builds' = Append(builds,
                   [export |-> index,
                    upstream_branch |-> branch,
                    debian_branch |-> debian_branch,
                    ignore |-> ignore_regexp(version_files(config)),
                    upstream_tag |-> "upstream/" \o python_version])
            /\ \/ /\ Step("build")
                  /\ UNCHANGED << cloneOnDisk, repo, index, worktree >>
               \/ Raise("RuntimeError: Command 'git-buildpackage' failed!")
    /\ UNCHANGED << setup, python_version, debian_version, default_mode,
                    editor >>

RemovesClone_IgnoresMode(m, keep) == ~keep

\* line 272
RemovesClone(m, keep) == m # "release" /\ ~keep

\* lines 271-274
Cleanup ==
    /\ pc = "cleanup"
    /\ IF RemovesClone(mode, options.keep_repo)
       THEN \/ /\ cloneOnDisk' = FALSE
               /\ Step("cleanup")
               /\ UNCHANGED << repo, index, worktree >>
            \/ Raise("ErrorReturnCode: rm")
       ELSE /\ Step("cleanup")
            /\ UNCHANGED << cloneOnDisk, repo, index, worktree >>
    /\ UNCHANGED << setup, python_version, debian_version, builds,
                    default_mode, editor >>

\* lines 276-297
Finalize ==
    /\ pc = "final"
    /\ IF mode = "release"
       THEN \/ /\ repo' = [repo EXCEPT
                              !.remoteNames = @ \cup {"original_origin"}]
               /\ pc' = "Finalized"
               /\ exitStatus' = 0
               /\ done' = Append(done, "final")
               /\ UNCHANGED << error, cloneOnDisk, index, worktree >>
            \/ Raise("GitCommandError: remote add original_origin")
       ELSE /\ pc' = "Finalized"
            /\ exitStatus' = 0
            /\ done' = Append(done, "final")
            /\ UNCHANGED << error, cloneOnDisk, repo, index, worktree >>
    /\ UNCHANGED << setup, python_version, debian_version, builds,
                    default_mode, editor >>

Next ==
    \/ LoadModule
    \/ ParseArgs
    \/ GetMode
    \/ CheckClean
    \/ LoadConfig
    \/ Classify
    \/ Clone
    \/ BuildDir
    \/ CreateBranch
    \/ Checkout
    \/ Merge
    \/ ComputeVersion
    \/ UpdateVersion
    \/ TagSource
    \/ TagUpstream
    \/ Dch
    \/ EditChangelog
    \/ AddChangelog
    \/ Commit
    \/ TagDebian
    \/ ForceAdd
    \/ Build
    \/ Cleanup
    \/ Finalize

Spec == Init /\ [][Next]_vars

\* ------------------------------------------------------------ properties
\* statement s has returned normally in this run
Did(s) == \E i \in 1..Len(done) : done[i] = s

\* the tags of the clone that the original did not have
NewTags == {t \in DOMAIN repo.tags : t \notin DOMAIN orig.tags}

IsPrefix(a, b) == Len(a) <= Len(b) /\ \A i \in 1..Len(a) : a[i] = b[i]

Range(seq) == {seq[i] : i \in 1..Len(seq)}

NoRepeats(seq) == \A i, j \in 1..Len(seq) : seq[i] = seq[j] => i = j

\* C1: in either mode, with a dirty original and no -d/--dirty, main() ends
\* with the RuntimeError of the clean check and exit status 1, and at no
\* point of the run is there a clone, a new branch, merge, tag or commit in
\* it, nor any change to the original repository.
C1_DirtyFailsBeforeClone ==
    /\ []((mode \in AVAILABLE_MODES /\ orig.dirty /\ ~options.force_dirty) =>
            /\ ~cloneOnDisk
            /\ repo = NoRepo
            /\ done = <<>>
            /\ builds = <<>>
            /\ pc \in {"open", "Aborted"}
            /\ pc = "Aborted" =>
                 /\ exitStatus = 1
                 /\ error = "RuntimeError: Repository is dirty.")
    /\ [][orig.dirty /\ ~options.force_dirty => orig' = orig]_vars

C1_Witness ==
    /\ pc = "Aborted"
    /\ error = "RuntimeError: Repository is dirty."
    /\ mode = "snapshot"
    /\ orig.dirty /\ ~options.force_dirty
    /\ ~cloneOnDisk

\* C2: a run that completes in release mode leaves exactly three new tags in
\* the clone: <version> and upstream/<version>, both at the commit the source
\* branch had before the merge, and debian/<version> at the 'Bump version'
\* commit made on top of the merge after the changelog was updated.
C2_ReleaseTags ==
    (pc = "Finalized" /\ mode = "release") =>
        LET src == python_version
            up == "upstream/" \o python_version
            deb == "debian/" \o python_version
        IN  /\ NewTags = {src, up, deb}
            /\ Cardinality(NewTags) = 3
            /\ repo.tags[src] = orig.heads[branch]
            /\ repo.tags[up] = orig.heads[branch]
            /\ LET c == repo.tags[deb]
               IN  /\ c \notin DOMAIN orig.objects
                   /\ c = repo.heads[debian_branch]
                   /\ repo.objects[c].msg = "Bump version to " \o debian_version
                   /\ repo.objects[c].tree["debian/changelog"]
                        = worktree["debian/changelog"]
                   /\ \A m \in repo.objects[c].parents :
                        /\ orig.heads[branch] \in repo.objects[m].parents
                        /\ repo.tags[src] # m

C2_Witness ==
    /\ pc = "Finalized"
    /\ mode = "release"
    /\ Cardinality(NewTags) = 3

\* C3: a run in snapshot mode creates no tag in the clone.
C3_NoTagsInSnapshot == mode = "snapshot" => NewTags = {}

\* The steps the workflow is described by, in the described order.
WorkflowSteps == << "clone", "branch", "merge", "version", "tag_src",
                    "tag_up", "dch", "commit", "tag_deb", "build", "final" >>

IsWorkflowStep(s) == s \in Range(WorkflowSteps)

C5_AbortKeepsClone ==
    /\ (pc = "Aborted" /\ Did("clone")) => (cloneOnDisk /\ exitStatus = 1)
    /\ (Did("clone") /\ ~cloneOnDisk) => Did("build")
    /\ pc = "Aborted" => exitStatus # 0

C5_Witness ==
    /\ pc = "Aborted"
    /\ error = "GitCommandError: merge: automatic merge failed"
    /\ mode = "snapshot"
    /\ ~options.keep_repo
    /\ cloneOnDisk

\* what the completed steps have put in the clone is in it
EffectsKept ==
    /\ Did("branch") => debian_branch \in DOMAIN repo.heads
    /\ Did("merge") =>
         \E m \in Reach(repo.objects, repo.heads[debian_branch]) :
            repo.objects[m].parents = {orig.heads[debian_branch],
                                       orig.heads[branch]}
    /\ Did("tag_src") => python_version \in NewTags
    /\ Did("tag_up") => ("upstream/" \o python_version) \in NewTags
    /\ Did("commit") =>
         repo.objects[repo.heads[debian_branch]].msg
            = "Bump version to " \o debian_version
    /\ Did("tag_deb") =>
         /\ ("debian/" \o python_version) \in NewTags
         /\ repo.tags["debian/" \o python_version] = repo.heads[debian_branch]

\* C6: after a failure no statement runs (the run has stopped at the failed
\* step, which was not completed), no step is taken twice, git-buildpackage
\* is invoked at most once, and everything the completed steps created in
\* the clone is still there.
C6_NoContinuationNoRollback ==
    /\ [](/\ Len(builds) <= 1
          /\ NoRepeats(done)
          /\ pc = "Aborted" =>
               /\ IsPrefix(done, Order)
               /\ Len(done) < Len(Order)
               /\ EffectsKept)
    /\ [][pc # "Aborted"]_vars

C6_Witness ==
    /\ pc = "Aborted"
    /\ error = "RuntimeError: Command 'git-buildpackage' failed!"
    /\ Len(builds) = 1
    /\ Cardinality(NewTags) = 3
    /\ Did("commit")

\* C7: once the build has succeeded and the cleanup statement has run, the
\* clone is on disk exactly when the mode is release or --keep-repo was
\* given.
C7_CleanupPolicy ==
    Did("cleanup") =>
        (cloneOnDisk <=> (mode = "release" \/ options.keep_repo))

C7_Witness ==
    /\ pc = "Finalized"
    /\ mode = "snapshot"
    /\ ~options.keep_repo
    /\ ~cloneOnDisk

\* the commits of the original's local packaging branch that its upstream
\* packaging branch does not have
Unpublished ==
    IF debian_branch \in DOMAIN orig.heads
    THEN Reach(orig.objects, orig.heads[debian_branch])
            \ Reach(orig.objects, orig.remotes[debian_branch])
    ELSE {}

\* C8 as claimed: no commit that is only on the original's local packaging
\* branch is part of the clone's packaging branch.
C8_OnlyPublished ==
    (debian_branch # "" /\ debian_branch \in DOMAIN repo.heads) =>
        Reach(repo.objects, repo.heads[debian_branch]) \cap Unpublished = {}

\* C8 as amended: the clone's packaging branch is created from the clone's
\* origin/<packaging branch>, which is the original's local packaging
\* branch; every commit of that branch, published or not, is part of the
\* clone's packaging branch.
C8_FromOriginalLocalBranch ==
    (debian_branch # "" /\ debian_branch \in DOMAIN repo.heads) =>
        /\ debian_branch \in DOMAIN orig.heads
        /\ repo.remotes[debian_branch] = orig.heads[debian_branch]
        /\ pc = "checkout" =>
             repo.heads[debian_branch] = orig.heads[debian_branch]
        /\ Reach(orig.objects, orig.heads[debian_branch])
             \subseteq Reach(repo.objects, repo.heads[debian_branch])

C8_Witness ==
    /\ Did("merge")
    /\ Unpublished # {}
    /\ Unpublished \subseteq Reach(repo.objects, repo.heads[debian_branch])

\* C9 as claimed: the force-added version files are in the commit the
\* packaging tag points at, so the tree the build exports from the index is
\* the tree of that commit.
C9_ExportIsTaggedTree ==
    builds # <<>> =>
        /\ builds[1].export = Tree(repo.tags["debian/" \o python_version])
        /\ GrepVersionVcs(worktree)
             \subseteq DOMAIN Tree(repo.tags["debian/" \o python_version])

\* C9 as amended: the changelog and the already tracked files that the
\* version update changed are in the single 'Bump version' commit the
\* packaging tag points at; the version files are force-added after that
\* commit and the tag, so the tree the build exports is the tagged commit's
\* tree with the version files found by the search laid over it, and a
\* version file that was not tracked is in the export but not in the commit.
C9_ExportIsTaggedTreePlusVersionFiles ==
    builds # <<>> =>
        LET c == repo.tags["debian/" \o python_version]
            vfs == GrepVersionVcs(worktree)
        IN  /\ repo.objects[c].msg = "Bump version to " \o debian_version
            /\ Tree(c)["debian/changelog"] = worktree["debian/changelog"]
            /\ \A m \in repo.objects[c].parents :
                 /\ DOMAIN Tree(c) = DOMAIN Tree(m)
                 /\ \A p \in vfs \cap DOMAIN Tree(m) : Tree(c)[p] = worktree[p]
            /\ builds[1].export = Overlay(Tree(c), Restrict(worktree, vfs))
            /\ vfs \subseteq DOMAIN builds[1].export
            /\ IndexOf(done, "commit") < IndexOf(done, "tag_deb")
            /\ IndexOf(done, "tag_deb") < IndexOf(done, "force_add")

C9_Witness ==
    /\ Did("build")
    /\ \E p \in GrepVersionVcs(worktree) :
         /\ p \notin DOMAIN Tree(repo.tags["debian/" \o python_version])
         /\ p \in DOMAIN builds[1].export

\* C10: a branch whose name is classified as none of the known branch types
\* ends the run with the ValueError that names the branch, with no clone
\* made and no packaging branch chosen.
C10_UnknownBranchRejected ==
    (branch # "" /\ branch_type_str \notin BRANCH_TYPES) =>
        /\ pc = "Aborted"
        /\ exitStatus = 1
        /\ error = "ValueError: Malformed branch name '" \o branch
                   \o "', cannot classify"
        /\ debian_branch = ""
        /\ ~cloneOnDisk
        /\ repo = NoRepo
        /\ done = <<>>

C10_Witness ==
    /\ pc = "Aborted"
    /\ branch = "wip"
    /\ branch_type_str = "unknown"
    /\ ~cloneOnDisk

\* C11: the packaging tag the run creates is named "debian/" followed by the
\* source version, the string that names the source tag and follows
\* "upstream/"; where the packaging version differs from the source version,
\* no tag is named after the packaging version, which is used in the commit
\* message and the changelog entry only.
C11_PackagingTagFromSourceVersion ==
    Did("tag_deb") =>
        /\ NewTags = {python_version, "upstream/" \o python_version,
                      "debian/" \o python_version}
        /\ debian_version = debian_version_from_python_version(python_version)
        /\ debian_version # python_version =>
             ("debian/" \o debian_version) \notin DOMAIN repo.tags
        /\ repo.objects[repo.tags["debian/" \o python_version]].msg
             = "Bump version to " \o debian_version
        /\ \E i \in 1..Len(worktree["debian/changelog"]) :
             worktree["debian/changelog"][i] = debian_version

C11_Witness ==
    /\ Did("tag_deb")
    /\ debian_version # python_version
    /\ ("debian/" \o python_version) \in NewTags

\* `sub` occurs in `bytes`
Contains(bytes, sub) ==
    \E i \in 1..(Len(bytes) - Len(sub) + 1) :
        SubSeq(bytes, i, i + Len(sub) - 1) = sub

\* debian/changelog as git-dch left it in this run
Generated ==
    DchEntry(debian_version)
        \o orig.objects[orig.heads[debian_branch]].tree["debian/changelog"]

\* C12: in snapshot mode the editor is never run and, once the edit step is
\* done, line 1 of the changelog is the generated line with the --dist value
\* in place of UNRELEASED and line 3 the generated line with 'Snapshot build'
\* in its place; in release mode the editor is run exactly once, the
\* changelog is what the editor saved, nothing of it is rewritten by the
\* script and the --dist value is in it only where git-dch's output already
\* had it.
C12_EditByMode ==
    /\ ~Did("edit") /\ pc # "Aborted" => editor = <<>>
    /\ mode = "snapshot" => editor = <<>>
    /\ (mode = "snapshot" /\ Did("edit")) =>
         LET now == ReadLines(worktree["debian/changelog"])
             gen == ReadLines(Generated)
         IN  /\ now[1] = Replace(gen[1], UNRELEASED, options.dist)
             /\ now[3] = Replace(gen[3], UNRELEASED, SnapshotBuild)
             /\ Contains(now[1], options.dist)
             /\ ~Contains(now[1], UNRELEASED)
             /\ Contains(now[3], SnapshotBuild)
             /\ ~Contains(now[3], UNRELEASED)
    /\ (mode = "release" /\ Did("edit")) =>
         /\ Len(editor) = 1
         /\ worktree["debian/changelog"] = editor[1]
         /\ editor[1] \in EditorSaves(Generated)
         /\ ~Contains(worktree["debian/changelog"], SnapshotBuild)
         /\ Contains(worktree["debian/changelog"], options.dist)
              => Contains(Generated, options.dist)

C12_Witness ==
    /\ mode = "snapshot"
    /\ Did("edit")
    /\ options.dist = <<"s", "i", "d">>
    /\ Contains(worktree["debian/changelog"], options.dist \o <<";">>)
    /\ editor = <<>>

\* C13: the mode is the first positional argument when there is one and the
\* environment default otherwise; a mode other than 'release' or 'snapshot'
\* is rejected with DEVFLOW_BUILD_MODE not yet set and the repository not
\* yet opened; once the mode is accepted DEVFLOW_BUILD_MODE holds it for
\* the rest of the run.
C13_ModeSelection ==
    LET InvalidMode ==
            error = "ValueError: Invalid argument! Mode must be one: release, snapshot"
        chosen == IF Len(options.args) > 0 THEN options.args[1] ELSE default_mode
    IN  /\ mode # "" =>
             /\ mode \in {"release", "snapshot"}
             /\ mode = chosen
             /\ environ = mode
        /\ mode = "" =>
             /\ environ = ""
             /\ pc \in {"load", "parse", "mode", "HelpShown", "Aborted"}
             /\ branch = ""
             /\ repo = NoRepo
             /\ ~cloneOnDisk
             /\ done = <<>>
        /\ InvalidMode =>
             /\ pc = "Aborted"
             /\ mode = ""
             /\ chosen \notin {"release", "snapshot"}
        /\ (pc = "Aborted" /\ chosen \notin {"release", "snapshot"}
               /\ use_colors # "undefined" /\ ~options.help)
             => InvalidMode

\* the default is used: no positional argument, a valid default, run past
\* the mode step
C13_Witness ==
    /\ options.args = <<>>
    /\ default_mode = "snapshot"
    /\ mode = "snapshot"
    /\ environ = "snapshot"
    /\ branch # ""

\* C14 (as stated): the build is given the upstream tag this run created at
\* the source branch, and for every set of configured packages, the empty
\* one included, the paths that the generated diff-ignore expression leaves
\* out of the source diff are exactly the configured version_file entries.
C14_IgnoresExactlyVersionFiles ==
    \A k \in 1..Len(builds) :
        /\ builds[k].upstream_tag \in NewTags
        /\ builds[k].upstream_tag = "upstream/" \o python_version
        /\ repo.tags[builds[k].upstream_tag] = orig.heads[branch]
        /\ {p \in DOMAIN builds[k].export : DiffIgnored(builds[k].ignore, p)}
             = VersionFiles(config)

\* the repositories a run can start from
InitialOrigs ==
    {OrigRepo(b, localDeb, tracked, dirty) :
        b \in BranchNames, localDeb \in -1..MaxUnpublished,
        tracked \in 0..MaxPackages, dirty \in BOOLEAN}

\* C15: no step of a run, whether the run completes or aborts, changes the
\* original repository: its branches, tags and commits stay what they were
\* when the run started, and every branch, merge, tag and commit of the run
\* is in the clone.
C15_OriginalUntouched ==
    [][/\ orig' = orig
       /\ orig'.heads = orig.heads
       /\ orig'.tags = orig.tags
       /\ orig'.objects = orig.objects]_vars

\* a completed run whose clone has the new branch, commits and tags while
\* the original is a repository as it was before any run
C15_Witness ==
    /\ pc = "Finalized"
    /\ orig \in InitialOrigs
    /\ debian_branch \in DOMAIN repo.heads
    /\ Cardinality(DOMAIN repo.objects) > Cardinality(DOMAIN orig.objects)
    /\ NewTags # {}
    /\ NewTags \cap DOMAIN orig.tags = {}

\* the 'Bump version' commit of this run is in the clone
BumpCommitExists ==
    \E c \in DOMAIN repo.objects \ DOMAIN orig.objects :
        repo.objects[c].msg = "Bump version to " \o debian_version

\* C16 (as stated): in every state of a run the upstream tag is in the clone
\* only if the source-version tag is, and the packaging tag is in the clone
\* only if the 'Bump version' commit and both source tags are.
C16_TagsInClone ==
    (repo # NoRepo /\ python_version # "") =>
        LET src == python_version
            up == "upstream/" \o python_version
            deb == "debian/" \o python_version
        IN  /\ up \in DOMAIN repo.tags => src \in DOMAIN repo.tags
            /\ deb \in DOMAIN repo.tags => BumpCommitExists
            /\ deb \in DOMAIN repo.tags =>
                 src \in DOMAIN repo.tags /\ up \in DOMAIN repo.tags

\* C16 (amended): of the tags the run itself creates, in every state,
\* completed or aborted, the upstream tag has been created only if the
\* source-version tag has, and the packaging tag only if the 'Bump version'
\* commit exists and both source tags have been created; the packaging tag
\* is at that commit.
C16_TagsCreatedInOrder ==
    (repo # NoRepo /\ python_version # "") =>
        LET src == python_version
            up == "upstream/" \o python_version
            deb == "debian/" \o python_version
        IN  /\ up \in NewTags => src \in NewTags
            /\ deb \in NewTags =>
                 /\ BumpCommitExists
                 /\ repo.objects[repo.tags[deb]].msg
                      = "Bump version to " \o debian_version
                 /\ src \in NewTags
                 /\ up \in NewTags
            /\ Did("tag_up") => up \in NewTags /\ src \in NewTags
            /\ Did("tag_deb") => deb \in NewTags

\* an aborted run that created the source tag and not the upstream tag
C16_Witness ==
    /\ pc = "Aborted"
    /\ python_version \in NewTags
    /\ ("upstream/" \o python_version) \notin NewTags
    /\ Did("tag_src")
    /\ ~Did("tag_up")

\* C17 (as stated): after the snapshot rewrite debian/changelog has as many
\* lines as git-dch left, every line but the first and the third is as it
\* was, and the file is the rewritten lines and nothing else: no byte of the
\* old content follows them, also when they are shorter than the old content.
C17_RewriteOnlyLines1And3 ==
    (mode = "snapshot" /\ Did("edit")) =>
        LET before == ReadLines(Generated)
            after == ReadLines(worktree["debian/changelog"])
        IN  /\ Len(after) = Len(before)
            /\ \A i \in 1..Len(before) : i \notin {1, 3} => after[i] = before[i]
            /\ worktree["debian/changelog"]
                 = Concat(SnapshotRewrite(before, options.dist))

\* C18 (as stated): a run that aborts on a configuration error, the missing
\* 'packages' section or a package entry without version_file, has created
\* no clone, and so no branch, commit or tag.
C18_ConfigErrorsBeforeClone ==
    error \in {"KeyError: 'packages'", "KeyError: 'version_file'"} =>
        /\ pc = "Aborted"
        /\ ~cloneOnDisk
        /\ repo = NoRepo
        /\ done = <<>>

\* C19 (as stated): use_colors is defined when line 54 reads it, whether or
\* not standard output is a terminal: loading the module never ends in a
\* NameError, and every run that has left the module's top level has
\* use_colors set to True or False.
C19_UseColorsDefinedWhenRead ==
    /\ error # "NameError: name 'use_colors' is not defined"
    /\ pc \notin {"load", "Aborted"} => use_colors \in {"True", "False"}
====
